---- MODULE Spec2Model ----
(***************************************************************************)
(* Model of the review extraction layer of airbnb-room-reviews-scraper:    *)
(* ReviewParser.parse_reviews (src/src/extractors/review_parser.py) with   *)
(* the field extractors it calls, ReviewerParser.parse_reviewer            *)
(* (reviewer_parser.py) and HostParser.parse_host (host_parser.py), and of  *)
(* the batch run around it: main (src/src/main.py) with its thread pool of *)
(* scrape_room workers and export_reviews (src/src/utils/data_formatter.py)*)
(*                                                                         *)
(* A page is a sequence of nodes in document order.  A node is a small DOM *)
(* subtree: its own tag and attributes, the text node it owns, its child   *)
(* elements (elems), and the links and images it holds, each of which sits *)
(* either directly in the node (parent 0) or inside elems[parent].         *)
(*                                                                         *)
(* Texts are sequences of tokens; the token " " is white space.  An absent *)
(* text and the empty text are both <<>> (Python treats both as false).    *)
(* Attribute values that the code only compares or copies are strings;     *)
(* None is an absent one.  Floats are integers counting tenths (45 = 4.5). *)
(* An optional number is <<>> (unset) or <<n>>.                            *)
(***************************************************************************)
EXTENDS Integers, Sequences, FiniteSets, TLC

VARIABLES
    page,        \* the parsed document: the nodes of the page, in document order
    room_url,    \* parse_reviews' argument room_url
    max_items,   \* parse_reviews' argument max_items: <<m>>, or NoLimit for None
    pc,          \* "find", "loop", "done" (returned)
    containers,  \* the result of _find_review_containers
    idx,         \* index of the container the for loop takes next
    reviews,     \* the list parse_reviews builds and returns
    examined,    \* indexes of the containers _parse_single_review was called on
    raised,      \* whether an exception left parse_reviews
    detectCalls, \* the comments handed to langdetect's detect, in call order
    main_pc,     \* where main is: "idle" (not running), "load_input",
                 \* "determine_output", "submit", "collect", "export", "done"
                 \* (returned), "aborted" (left by an exception)
    input_cfg,   \* the content of the input file
    settings,    \* the result of load_settings
    cli_format,  \* args.output_format
    output_format, \* the format determine_output returned
    futures,     \* the futures of the pool, in submission order
    yielded,     \* the futures as_completed has yielded to main's loop
    all_reviews, \* main's list all_reviews
    error        \* the exception that left main, None if none

\* the variables of parse_reviews
parseVars == <<page, room_url, max_items, pc, containers, idx, reviews, examined,
               raised, detectCalls>>

\* the variables of main
mainVars == <<main_pc, input_cfg, settings, cli_format, output_format, futures,
              yielded, all_reviews, error>>

vars == <<page, room_url, max_items, pc, containers, idx, reviews, examined,
          raised, detectCalls, main_pc, input_cfg, settings, cli_format,
          output_format, futures, yielded, all_reviews, error>>

-----------------------------------------------------------------------------
(* Bounds of the model. *)

\* longest page of the batch specification
MaxPage == 4
\* longest page of the locator specification
MaxNodes == 3
\* longest page of the specifications that vary one extractor's inputs
MaxDetail == 1
\* largest finite max_items
MaxItems == 2
\* most rooms of a batch
MaxRooms == 3
\* largest configured concurrent_requests
MaxWorkers == 2
\* most records scrape_room returns for a room
MaxRecords == 2

-----------------------------------------------------------------------------
(* Values. *)

None == "None"
NoLimit == <<>>
NoText == <<>>
Unset == <<>>

Truthy(s) == s \notin {None, ""}

Min(S) == CHOOSE x \in S : \A y \in S : x <= y
Max(S) == CHOOSE x \in S : \A y \in S : x >= y

RECURSIVE Flatten(_)
Flatten(ss) == IF ss = <<>> THEN <<>> ELSE Head(ss) \o Flatten(Tail(ss))

\* the members of a set of integers, in increasing order
RECURSIVE SetToSeq(_)
SetToSeq(S) == IF S = {} THEN <<>> ELSE <<Min(S)>> \o SetToSeq(S \ {Min(S)})

-----------------------------------------------------------------------------
(* Text: str.strip, str.lower, len, substring search, on token sequences. *)

IsWs(t) == t \in {" ", "\n"}

\* str.strip(), and get_text(strip=True) of a single text node
Strip(s) ==
    LET keep == {i \in 1..Len(s) : ~IsWs(s[i])}
    IN  IF keep = {} THEN <<>> ELSE SubSeq(s, Min(keep), Max(keep))

\* str.lower() of one token
LowerTok(t) ==
    CASE t \in {"Response", "RESPONSE"} -> "response"
      [] t \in {"From", "FROM"} -> "from"
      [] t \in {"Superhost", "SUPERHOST"} -> "superhost"
      [] t \in {"Years", "YEARS"} -> "years"
      [] t = "Year" -> "year"
      [] t = "On" -> "on"
      [] t = "Airbnb" -> "airbnb"
      [] OTHER -> t

Lower(s) == [i \in 1..Len(s) |-> LowerTok(s[i])]

\* len() of a text, in characters
RECURSIVE TextLen(_)
TextLen(s) == IF s = <<>> THEN 0 ELSE Len(Head(s)) + TextLen(Tail(s))

\* the positions at which the phrase p starts in s
PhraseStarts(s, p) ==
    {i \in 1..(Len(s) - Len(p) + 1) : SubSeq(s, i, i + Len(p) - 1) = p}

\* p in s
Contains(s, p) == PhraseStarts(s, p) # {}

\* sep.join(pieces) of the non-empty pieces
RECURSIVE Join(_, _)
Join(pieces, sep) ==
    IF pieces = <<>> THEN <<>>
    ELSE IF Head(pieces) = <<>> THEN Join(Tail(pieces), sep)
    ELSE LET rest == Join(Tail(pieces), sep)
         IN  IF rest = <<>> THEN Head(pieces) ELSE Head(pieces) \o sep \o rest

-----------------------------------------------------------------------------
(* The document abstraction: nodes, their child elements, links, images. *)

\* a child element without attributes or text
Elem(tag) ==
    [tag |-> tag, testid |-> None, itemprop |-> None, content |-> None,
     ariaLabel |-> NoText, datetime |-> NoText, cls |-> {}, text |-> NoText]

\* <a href=...>text</a> inside elems[parent], or directly in the node (0)
Link(href, text, parent) == [href |-> href, text |-> text, parent |-> parent]

\* <img> without attributes inside elems[parent], or directly in the node (0)
Img(parent) ==
    [src |-> None, origUri |-> None, testid |-> None, alt |-> NoText,
     width |-> None, height |-> None, parent |-> parent]

\* a node of the page with no attributes and nothing inside
\* fault: an unexpected exception leaves its extraction; detect: what
\* langdetect answers for its comment
Node(tag) ==
    [tag |-> tag, rid |-> None, id |-> None, testid |-> None,
     itemprop |-> None, cls |-> {}, text |-> NoText, elems |-> <<>>,
     links |-> <<>>, imgs |-> <<>>, fault |-> FALSE, detect |-> "en"]

\* the positions of s that satisfy Test, in document order
Where(s, Test(_)) == SetToSeq({i \in 1..Len(s) : Test(s[i])})

\* find_all / select on the children of node c: positions in c.elems
ElemsWhere(c, Test(_)) == Where(c.elems, Test)

\* the links and images inside elems[i] (all of them for i = 0 is not meant:
\* parent 0 is "directly in the node")
LinksIn(c, i) == Where(c.links, LAMBDA l : l.parent = i)
ImgsIn(c, i) == Where(c.imgs, LAMBDA g : g.parent = i)

\* the stripped text nodes inside elems[i], in document order
ElemPieces(c, i) ==
    <<Strip(c.elems[i].text)>>
        \o [k \in 1..Len(LinksIn(c, i)) |-> Strip(c.links[LinksIn(c, i)[k]].text)]

\* element.get_text(sep, strip=True)
ElemText(c, i, sep) == Join(ElemPieces(c, i), sep)

\* link.get_text(strip=True)
LinkText(l) == Strip(l.text)

\* the stripped text nodes of the whole node, in document order: the links
\* directly in the node, its own text, then each child element
NodePieces(c) ==
    [k \in 1..Len(LinksIn(c, 0)) |-> Strip(c.links[LinksIn(c, 0)[k]].text)]
        \o <<Strip(c.text)>>
        \o Flatten([i \in 1..Len(c.elems) |-> ElemPieces(c, i)])

\* container.get_text(sep, strip=True)
NodeText(c, sep) == Join(NodePieces(c), sep)

-----------------------------------------------------------------------------
(* ReviewParser._find_review_containers *)

\* soup.select(selector) for the five selectors, as positions in the page
Select(doc, selector) ==
    CASE selector = "[data-review-id]" ->
            Where(doc, LAMBDA n : n.rid # None)
      [] selector = "div[data-testid=review]" ->
            Where(doc, LAMBDA n : n.tag = "div" /\ n.testid = "review")
      [] selector = "div[itemprop=review]" ->
            Where(doc, LAMBDA n : n.tag = "div" /\ n.itemprop = "review")
      [] selector = "div.review" ->
            Where(doc, LAMBDA n : n.tag = "div" /\ "review" \in n.cls)
      [] selector = "article" ->
            Where(doc, LAMBDA n : n.tag = "article")

selectors ==
    <<"[data-review-id]", "div[data-testid=review]", "div[itemprop=review]",
      "div.review", "article">>

\* the for loop over selectors, from selector number k on
RECURSIVE FindFrom(_, _)
FindFrom(doc, k) ==
    IF k > Len(selectors) THEN <<>>
    ELSE LET elements == Select(doc, selectors[k])
         IN  IF elements # <<>> THEN elements ELSE FindFrom(doc, k + 1)

\* mutant of FindReviewContainers: the matches of all strategies together
FindReviewContainers_Mixed(doc) ==
    SetToSeq(UNION {{Select(doc, selectors[k])[j] :
                        j \in 1..Len(Select(doc, selectors[k]))} :
                    k \in 1..Len(selectors)})

\* positions in the page of the review containers
FindReviewContainers(doc) == FindFrom(doc, 1)

-----------------------------------------------------------------------------
(* ReviewParser._extract_review_id_from_attributes and the review id *)

\* re.search(r"review[-_]?(\d+)", value): the digits captured, or None
ReviewIdIn(value) ==
    CASE value = "review-42" -> "42"
      [] value = "review_7" -> "7"
      [] value = "review9" -> "9"
      [] OTHER -> None

\* the string attribute values of the node, in attribute order (class is a
\* list in the document abstraction and is skipped by the isinstance test)
AttrValues(c) ==
    LET all == <<c.rid, c.id, c.testid, c.itemprop>>
    IN  [k \in 1..Len(Where(all, LAMBDA v : v # None)) |->
            all[Where(all, LAMBDA v : v # None)[k]]]

ExtractReviewIdFromAttributes(c) ==
    LET hits == Where(AttrValues(c), LAMBDA v : ReviewIdIn(v) # None)
    IN  IF hits = <<>> THEN None ELSE ReviewIdIn(AttrValues(c)[hits[1]])

\* container.get("data-review-id") or container.get("id") or the scan
ReviewId(c) ==
    IF Truthy(c.rid) THEN c.rid
    ELSE IF Truthy(c.id) THEN c.id
    ELSE ExtractReviewIdFromAttributes(c)

-----------------------------------------------------------------------------
(* ReviewParser._extract_comment *)

\* container.select_one(selector) for the four comment selectors: the
\* position of the first match in c.elems, 0 when there is none
CommentSelectOne(c, selector) ==
    LET hits ==
          CASE selector = "div[data-testid=review-comments]" ->
                  ElemsWhere(c, LAMBDA e : e.tag = "div" /\ e.testid = "review-comments")
            [] OTHER -> ElemsWhere(c, LAMBDA e : e.tag = selector)
    IN  IF hits = <<>> THEN 0 ELSE hits[1]

candidates == <<"div[data-testid=review-comments]", "q", "blockquote", "p">>

\* the for loop over the candidates, from candidate k on: the first non-empty
\* text of a candidate's first element, NoText when the loop falls through
RECURSIVE CommentFrom(_, _)
CommentFrom(c, k) ==
    IF k > Len(candidates) THEN NoText
    ELSE LET element == CommentSelectOne(c, candidates[k])
         IN  IF element # 0 /\ ElemText(c, element, <<>>) # NoText
             THEN ElemText(c, element, <<>>)
             ELSE CommentFrom(c, k + 1)

\* the span loop: the first span whose text is longer than all before it wins
RECURSIVE LongestSpan(_, _, _)
LongestSpan(c, spans, longest_text) ==
    IF spans = <<>> THEN longest_text
    ELSE LET text == ElemText(c, Head(spans), <<>>)
         IN  LongestSpan(c, Tail(spans),
                 IF TextLen(text) > TextLen(longest_text) THEN text ELSE longest_text)

\* the comment, NoText for None
ExtractComment(c) ==
    IF CommentFrom(c, 1) # NoText THEN CommentFrom(c, 1)
    ELSE LongestSpan(c, ElemsWhere(c, LAMBDA e : e.tag = "span"), NoText)

-----------------------------------------------------------------------------
(* ReviewParser._extract_rating *)

\* the decimal numbers the samples use, in tenths: float() of a token that
\* matches \d+(?:\.\d+)?
NumValue ==
    ("0" :> 0) @@ ("2" :> 20) @@ ("3.5" :> 35) @@ ("4" :> 40) @@ ("4.5" :> 45)
    @@ ("5" :> 50) @@ ("7" :> 70) @@ ("9.5" :> 95) @@ ("10" :> 100)

\* a token that matches \d+(?:\.\d+)? as a whole
IsNum(t) == t \in DOMAIN NumValue

\* float(s) returns for these strings and raises ValueError for all others
FloatParses(s) == s \in DOMAIN NumValue \cup {"-1"}
FloatOf(s) == IF s = "-1" THEN -10 ELSE NumValue[s]

\* a token the literal 5 of the patterns matches the start of
Starts5(t) == t \in {"5", "50", "5.0"}

\* the first position at or after i that holds no white space
RECURSIVE AfterWs(_, _)
AfterWs(s, i) == IF i <= Len(s) /\ IsWs(s[i]) THEN AfterWs(s, i + 1) ELSE i

\* (\d+(?:\.\d+)?)\s+out\s+of\s+5 matches at token i of label
OutOfMatchAt(label, i) ==
    LET a == AfterWs(label, i + 1)
        b == AfterWs(label, a + 1)
        d == AfterWs(label, b + 1)
    IN  /\ IsNum(label[i])
        /\ a > i + 1 /\ a <= Len(label) /\ label[a] = "out"
        /\ b > a + 1 /\ b <= Len(label) /\ label[b] = "of"
        /\ d > b + 1 /\ d <= Len(label) /\ Starts5(label[d])

\* (\d+(?:\.\d+)?)\s*/\s*5 matches at token i of text
SlashMatchAt(text, i) ==
    LET a == AfterWs(text, i + 1)
        b == AfterWs(text, a + 1)
    IN  /\ IsNum(text[i])
        /\ a <= Len(text) /\ text[a] = "/"
        /\ b <= Len(text) /\ Starts5(text[b])

\* re.search: group(1) of the leftmost match as a float, Unset without a match
OutOfSearch(label) ==
    LET hits == {i \in 1..Len(label) : OutOfMatchAt(label, i)}
    IN  IF hits = {} THEN Unset ELSE <<FloatOf(label[Min(hits)])>>

SlashSearch(text) ==
    LET hits == {i \in 1..Len(text) : SlashMatchAt(text, i)}
    IN  IF hits = {} THEN Unset ELSE <<FloatOf(text[Min(hits)])>>

\* first heuristic: the first element with itemprop="ratingValue"
RatingFromAttribute(c) ==
    LET found == ElemsWhere(c, LAMBDA e : e.itemprop = "ratingValue")
    IN  IF found # <<>> /\ Truthy(c.elems[found[1]].content)
            /\ FloatParses(c.elems[found[1]].content)
        THEN <<FloatOf(c.elems[found[1]].content)>>
        ELSE Unset

\* second heuristic: the first element with an aria-label the pattern matches
RatingFromLabel(c) ==
    LET found == ElemsWhere(c, LAMBDA e : OutOfSearch(e.ariaLabel) # Unset)
    IN  IF found # <<>> THEN OutOfSearch(c.elems[found[1]].ariaLabel) ELSE Unset

\* third heuristic: the text of the whole container
RatingFromText(c) == SlashSearch(NodeText(c, <<" ">>))

\* mutant of ExtractRating: the label is tried before the explicit attribute
ExtractRating_LabelFirst(c) ==
    IF RatingFromLabel(c) # Unset THEN RatingFromLabel(c)
    ELSE IF RatingFromAttribute(c) # Unset THEN RatingFromAttribute(c)
    ELSE RatingFromText(c)

ExtractRating(c) ==
    IF RatingFromAttribute(c) # Unset THEN RatingFromAttribute(c)
    ELSE IF RatingFromLabel(c) # Unset THEN RatingFromLabel(c)
    ELSE RatingFromText(c)

-----------------------------------------------------------------------------
(* ReviewParser._extract_dates *)

\* dateutil's parser.parse on the date texts of the samples: the timestamp
\* it returns; every other text makes it raise ParserError (a ValueError)
DateTable ==
    (<<"2023-03-15">> :>
        [y |-> 2023, mo |-> 3, d |-> 15, hh |-> 0, mi |-> 0, ss |-> 0, tz |-> None])
    @@ (<<"2021-12-01T10:30:00+02:00">> :>
        [y |-> 2021, mo |-> 12, d |-> 1, hh |-> 10, mi |-> 30, ss |-> 0, tz |-> "+02:00"])
    @@ (<<"15", " ", "March", " ", "2023">> :>
        [y |-> 2023, mo |-> 3, d |-> 15, hh |-> 0, mi |-> 0, ss |-> 0, tz |-> None])

DateParses(text) == text \in DOMAIN DateTable

MonthName ==
    <<"January", "February", "March", "April", "May", "June", "July",
      "August", "September", "October", "November", "December">>

Pad2(n) == IF n < 10 THEN "0" \o ToString(n) ELSE ToString(n)

\* dt.replace(tzinfo=None).isoformat() + "Z"
IsoZ(dt) ==
    <<ToString(dt.y) \o "-" \o Pad2(dt.mo) \o "-" \o Pad2(dt.d) \o "T"
        \o Pad2(dt.hh) \o ":" \o Pad2(dt.mi) \o ":" \o Pad2(dt.ss) \o "Z">>

\* dt.strftime("%B %Y")
MonthYear(dt) == <<MonthName[dt.mo], " ", ToString(dt.y)>>

\* an attribute value or label word with "date" in its lower case
DateWord(v) ==
    v \in {"date", "Date", "review-date", "Review-Date", "datePublished"}

\* "date" in " ".join(the element's string attribute values).lower()
MentionsDate(e) ==
    \/ DateWord(e.testid) \/ DateWord(e.itemprop) \/ DateWord(e.content)
    \/ \E i \in 1..Len(e.ariaLabel) : DateWord(e.ariaLabel[i])
    \/ \E i \in 1..Len(e.datetime) : DateWord(e.datetime[i])

\* date_text after the <time> lookup
TimeDateText(c) ==
    LET found == ElemsWhere(c, LAMBDA e : e.tag = "time")
    IN  IF found = <<>> THEN NoText
        ELSE IF c.elems[found[1]].datetime # NoText THEN c.elems[found[1]].datetime
        ELSE ElemText(c, found[1], <<>>)

\* date_text after the span fallback: the text of the first span that
\* mentions "date", whether or not that text is empty
DateText(c) ==
    IF TimeDateText(c) # NoText THEN TimeDateText(c)
    ELSE LET found == ElemsWhere(c, LAMBDA e : e.tag = "span" /\ MentionsDate(e))
         IN  IF found = <<>> THEN NoText ELSE ElemText(c, found[1], <<>>)

\* mutant of ExtractDates: on a parse failure the raw text is returned in
\* the first place of the pair instead of the second
ExtractDates_Swapped(c) ==
    LET date_text == DateText(c)
    IN  IF date_text = NoText THEN <<NoText, NoText>>
        ELSE IF ~DateParses(date_text) THEN <<date_text, NoText>>
        ELSE <<IsoZ(DateTable[date_text]), MonthYear(DateTable[date_text])>>

\* (created_at, localized_date)
ExtractDates(c) ==
    LET date_text == DateText(c)
    IN  IF date_text = NoText THEN <<NoText, NoText>>
        ELSE IF ~DateParses(date_text) THEN <<NoText, date_text>>
        ELSE <<IsoZ(DateTable[date_text]), MonthYear(DateTable[date_text])>>

-----------------------------------------------------------------------------
(* ReviewParser._extract_host_response *)

ResponseLimit == 2000

\* the first host-response section / div among the child elements, 0 if none
HostSection(c) ==
    LET found == ElemsWhere(c, LAMBDA e : e.tag = "section" /\ e.testid = "host-response")
    IN  IF found = <<>> THEN 0 ELSE found[1]

HostDiv(c) ==
    LET found == ElemsWhere(c, LAMBDA e :
                    e.tag = "div" /\ e.testid = "review-detail-host-response")
    IN  IF found = <<>> THEN 0 ELSE found[1]

\* the positions where "response from" starts in the lower case of text
ResponseFromStarts(text) == PhraseStarts(Lower(text), <<"response", " ", "from">>)

\* response_text[:2000].rsplit(" ", 1)[0] + "..." : the tokens before the
\* last white space that lies within the first ResponseLimit characters
Truncate(text) ==
    LET fits == {k \in 0..Len(text) : TextLen(SubSeq(text, 1, k)) <= ResponseLimit}
        cut == {k \in 1..Max(fits) : text[k] = " "}
    IN  IF cut = {} THEN SubSeq(text, 1, Max(fits)) \o <<"...">>
        ELSE SubSeq(text, 1, Max(cut) - 1) \o <<"...">>

\* re.search(r"Response from.*?:\s*(.+)", text, IGNORECASE | DOTALL):
\* group(1).strip(), NoText without a match
ResponsePattern(text) ==
    LET starts == ResponseFromStarts(text)
        colons == IF starts = {} THEN {}
                  ELSE {j \in (Min(starts) + 3)..(Len(text) - 1) : text[j] = ":"}
    IN  IF colons = {} THEN NoText
        ELSE Strip(SubSeq(text, Min(colons) + 1, Len(text)))

ExtractHostResponse(c) ==
    IF HostDiv(c) # 0 /\ ElemText(c, HostDiv(c), <<" ">>) # NoText
    THEN ElemText(c, HostDiv(c), <<" ">>)
    ELSE IF HostSection(c) # 0 /\ ElemText(c, HostSection(c), <<" ">>) # NoText
    THEN ElemText(c, HostSection(c), <<" ">>)
    ELSE LET response_text == ResponsePattern(NodeText(c, <<"\n">>))
         IN  IF TextLen(response_text) > ResponseLimit
             THEN Truncate(response_text) ELSE response_text

-----------------------------------------------------------------------------
(* ReviewParser._extract_review_photos *)

\* mutant of AppendNew: "url not in photos" is not tested
RECURSIVE AppendNew_NoDedup(_, _)
AppendNew_NoDedup(photos, urls) ==
    IF urls = <<>> THEN photos
    ELSE AppendNew_NoDedup(IF Truthy(Head(urls)) THEN Append(photos, Head(urls))
                           ELSE photos,
                           Tail(urls))

\* photos after "if url and url not in photos: photos.append(url)" for each
\* url of urls in turn
RECURSIVE AppendNew(_, _)
AppendNew(photos, urls) ==
    IF urls = <<>> THEN photos
    ELSE LET url == Head(urls)
             seen == {photos[i] : i \in 1..Len(photos)}
         IN  AppendNew(IF Truthy(url) /\ url \notin seen
                       THEN Append(photos, url) ELSE photos,
                       Tail(urls))

\* img.get("data-original-uri") or img.get("src")
PhotoUrl(g) == IF Truthy(g.origUri) THEN g.origUri ELSE g.src

\* the urls the two photo selectors visit, in the order visited
MarkedPhotoUrls(c) ==
    LET byTestid == Where(c.imgs, LAMBDA g : g.testid = "review-photo")
        byUri == Where(c.imgs, LAMBDA g : g.origUri # None)
    IN  [k \in 1..Len(byTestid) |-> PhotoUrl(c.imgs[byTestid[k]])]
            \o [k \in 1..Len(byUri) |-> PhotoUrl(c.imgs[byUri[k]])]

\* a class whose lower case mentions "photo" or "image"
PhotoClass(cl) == cl \in {"photo", "review-photos", "Image", "image-grid"}

\* the src of each image under a div whose classes mention photo or image,
\* div by div in document order
FallbackPhotoUrls(c) ==
    LET divs == ElemsWhere(c, LAMBDA e : e.tag = "div" /\ \E cl \in e.cls : PhotoClass(cl))
    IN  Flatten([k \in 1..Len(divs) |->
            [j \in 1..Len(ImgsIn(c, divs[k])) |-> c.imgs[ImgsIn(c, divs[k])[j]].src]])

ExtractReviewPhotos(c) ==
    LET photos == AppendNew(<<>>, MarkedPhotoUrls(c))
    IN  IF photos = <<>> THEN AppendNew(photos, FallbackPhotoUrls(c)) ELSE photos

-----------------------------------------------------------------------------
(* Profile links: "/users/show/" in href, re.search(r"/users/show/(\d+)") *)

ProfileHref(href) ==
    href \in {"/users/show/123", "/users/show/456", "/users/show/me"}

ExtractUserIdFromHref(href) ==
    CASE href = "/users/show/123" -> "123"
      [] href = "/users/show/456" -> "456"
      [] OTHER -> None

\* "superhost" in container.get_text(" ", strip=True).lower()
DetectSuperhostFlag(c) ==
    \E i \in 1..Len(NodeText(c, <<" ">>)) :
        LowerTok(NodeText(c, <<" ">>)[i]) = "superhost"

-----------------------------------------------------------------------------
(* ReviewerParser *)

AvatarMax == 80
LocationMax == 80

\* the first link of the container with a profile href, 0 if none
FindProfileLink(c) ==
    LET found == Where(c.links, LAMBDA l : l.href # None /\ ProfileHref(l.href))
    IN  IF found = <<>> THEN 0 ELSE found[1]

\* int(s) returns for these strings and raises ValueError for all others
IntParses(s) == s \in {"32", "40", "80", "81", "120"}
IntOf(s) ==
    CASE s = "32" -> 32 [] s = "40" -> 40 [] s = "80" -> 80
      [] s = "81" -> 81 [] s = "120" -> 120

\* "profile" in alt or "avatar" in alt, alt in lower case
AvatarAlt(alt) ==
    \E i \in 1..Len(alt) :
        alt[i] \in {"profile", "Profile", "avatar", "Avatar", "profile-picture"}

\* mutant of FindProfilePicture: the fallback takes the small image with the
\* shortest longer side
FindProfilePicture_Smallest(c) ==
    LET labelled == Where(c.imgs, LAMBDA g : AvatarAlt(g.alt) /\ Truthy(g.src))
        small == Where(c.imgs, LAMBDA g :
                    /\ Truthy(g.width) /\ Truthy(g.height)
                    /\ IntParses(g.width) /\ IntParses(g.height)
                    /\ Max({IntOf(g.width), IntOf(g.height)}) <= AvatarMax
                    /\ Truthy(g.src))
        side(i) == Max({IntOf(c.imgs[i].width), IntOf(c.imgs[i].height)})
    IN  IF labelled # <<>> THEN c.imgs[labelled[1]].src
        ELSE IF small # <<>>
        THEN c.imgs[Min({i \in 1..Len(c.imgs) :
                          /\ \E k \in 1..Len(small) : small[k] = i
                          /\ \A k \in 1..Len(small) : side(i) <= side(small[k])})].src
        ELSE None

FindProfilePicture(c) ==
    LET labelled == Where(c.imgs, LAMBDA g : AvatarAlt(g.alt) /\ Truthy(g.src))
        small == Where(c.imgs, LAMBDA g :
                    /\ Truthy(g.width) /\ Truthy(g.height)
                    /\ IntParses(g.width) /\ IntParses(g.height)
                    /\ Max({IntOf(g.width), IntOf(g.height)}) <= AvatarMax
                    /\ Truthy(g.src))
    IN  IF labelled # <<>> THEN c.imgs[labelled[1]].src
        ELSE IF small # <<>> THEN c.imgs[small[1]].src
        ELSE None

\* sorted(text_candidates, key=len)[0]: the first of the shortest
ShortestFirst(c, cands) ==
    LET len(k) == TextLen(ElemText(c, cands[k], <<" ">>))
        best == Min({k \in 1..Len(cands) :
                    \A j \in 1..Len(cands) : len(k) <= len(j)})
    IN  ElemText(c, cands[best], <<" ">>)

FindReviewerLocation(c) ==
    LET blocks == ElemsWhere(c, LAMBDA e : e.tag \in {"span", "div"})
        text(k) == ElemText(c, blocks[k], <<" ">>)
        tenure(k) ==
            \/ Contains(Lower(text(k)), <<"years", " ", "on", " ", "airbnb">>)
            \/ Contains(Lower(text(k)), <<"year", " ", "on", " ", "airbnb">>)
        from(k) == /\ Contains(Lower(text(k)), <<"from", " ">>)
                   /\ TextLen(text(k)) < LocationMax
        \* the loop returns at the first tenure block; candidates are the
        \* "from " blocks it passed before
        stop == {k \in 1..Len(blocks) : text(k) # NoText /\ tenure(k)}
        cands == SetToSeq({blocks[k] : k \in
                    {k \in 1..Len(blocks) : text(k) # NoText /\ from(k)}})
    IN  IF stop # {} THEN text(Min(stop))
        ELSE IF cands # <<>> THEN ShortestFirst(c, cands)
        ELSE NoText

ParseReviewer(c) ==
    LET profile_link == FindProfileLink(c)
    IN  [id |-> IF profile_link = 0 THEN None
                ELSE ExtractUserIdFromHref(c.links[profile_link].href),
         firstName |-> IF profile_link = 0 THEN NoText
                       ELSE LinkText(c.links[profile_link]),
         profilePath |-> IF profile_link = 0 THEN None
                         ELSE c.links[profile_link].href,
         pictureUrl |-> FindProfilePicture(c),
         isSuperhost |-> DetectSuperhostFlag(c),
         location |-> FindReviewerLocation(c)]

-----------------------------------------------------------------------------
(* HostParser *)

\* the first profile link inside elems[section], 0 if none (or no section)
ProfileLinkIn(c, section) ==
    LET found == Where(c.links, LAMBDA l :
                    l.parent = section /\ l.href # None /\ ProfileHref(l.href))
    IN  IF section = 0 \/ found = <<>> THEN 0 ELSE found[1]

\* mutant of FindHostLink: the fallback takes a profile link without asking
\* for "response from" in the text
FindHostLink_NoPhrase(c) ==
    IF ProfileLinkIn(c, HostSection(c)) # 0 THEN ProfileLinkIn(c, HostSection(c))
    ELSE IF ProfileLinkIn(c, HostDiv(c)) # 0 THEN ProfileLinkIn(c, HostDiv(c))
    ELSE FindProfileLink(c)

FindHostLink(c) ==
    IF ProfileLinkIn(c, HostSection(c)) # 0 THEN ProfileLinkIn(c, HostSection(c))
    ELSE IF ProfileLinkIn(c, HostDiv(c)) # 0 THEN ProfileLinkIn(c, HostDiv(c))
    ELSE \* fallback: any profile link, given "response from" in the text
         IF ResponseFromStarts(NodeText(c, <<" ">>)) # {} THEN FindProfileLink(c)
         ELSE 0

\* mutant of StripResponseFrom: the phrase is matched in this letter case only
StripResponseFrom_CaseSensitive(text) ==
    IF /\ Len(text) >= 3
       /\ text[1] = "Response" /\ text[2] = " " /\ text[3] = "from"
       /\ AfterWs(text, 4) > 4
    THEN SubSeq(text, AfterWs(text, 4), Len(text))
    ELSE text

\* re.sub(r"^Response from\s+", "", text, flags=re.IGNORECASE)
StripResponseFrom(text) ==
    IF /\ 1 \in ResponseFromStarts(text)
       /\ AfterWs(text, 4) > 4
    THEN SubSeq(text, AfterWs(text, 4), Len(text))
    ELSE text

\* the first image with a src inside elems[section], None if none
PictureIn(c, section) ==
    LET found == Where(c.imgs, LAMBDA g : g.parent = section /\ Truthy(g.src))
    IN  IF section = 0 \/ found = <<>> THEN None ELSE c.imgs[found[1]].src

\* mutant of FindHostPicture: with no picture in a host section, any image
\* of the container is taken
FindHostPicture_AnyImage(c) ==
    IF PictureIn(c, HostSection(c)) # None THEN PictureIn(c, HostSection(c))
    ELSE IF PictureIn(c, HostDiv(c)) # None THEN PictureIn(c, HostDiv(c))
    ELSE IF Where(c.imgs, LAMBDA g : Truthy(g.src)) # <<>>
    THEN c.imgs[Where(c.imgs, LAMBDA g : Truthy(g.src))[1]].src
    ELSE None

FindHostPicture(c) ==
    IF PictureIn(c, HostSection(c)) # None THEN PictureIn(c, HostSection(c))
    ELSE PictureIn(c, HostDiv(c))

ParseHost(c) ==
    LET host_link == FindHostLink(c)
    IN  [id |-> IF host_link = 0 THEN None
                ELSE ExtractUserIdFromHref(c.links[host_link].href),
         firstName |-> IF host_link = 0 THEN NoText
                       ELSE StripResponseFrom(LinkText(c.links[host_link])),
         profilePath |-> IF host_link = 0 THEN None ELSE c.links[host_link].href,
         pictureUrl |-> FindHostPicture(c),
         isSuperhost |-> DetectSuperhostFlag(c)]

-----------------------------------------------------------------------------
(* ReviewParser._parse_single_review *)

\* langdetect's detect(comment): a language code, or LangDetectException
\* (caught: language stays None)
DetectLanguage(c) == IF c.detect = "LangDetectException" THEN None ELSE c.detect

\* mutant of Language: detect is called whatever the comment is
Language_Unguarded(c) == DetectLanguage(c)

\* language = None; if comment: try detect(comment), None on
\* LangDetectException
Language(c) == IF ExtractComment(c) # NoText THEN DetectLanguage(c) ELSE None

ParseSingleReview(c, url) ==
    [roomUrl |-> url,
     reviewId |-> ReviewId(c),
     rating |-> ExtractRating(c),
     comment |-> ExtractComment(c),
     language |-> Language(c),
     createdAt |-> ExtractDates(c)[1],
     localizedDate |-> ExtractDates(c)[2],
     reviewer |-> ParseReviewer(c),
     host |-> ParseHost(c),
     response |-> ExtractHostResponse(c),
     reviewPhotos |-> ExtractReviewPhotos(c)]

\* the calls of detect that _parse_single_review makes for container c
DetectCallsOf(c) == IF ExtractComment(c) # NoText THEN <<ExtractComment(c)>> ELSE <<>>

-----------------------------------------------------------------------------
(* ReviewParser.parse_reviews *)

\* the container the loop is at
Current == page[containers[idx]]

\* mutant of LimitReached: the comparison is off by one
LimitReached_OffByOne == max_items # NoLimit /\ Len(reviews) > max_items[1]

\* "max_items is not None and len(reviews) >= max_items"
LimitReached == max_items # NoLimit /\ Len(reviews) >= max_items[1]

\* containers = self._find_review_containers(soup); reviews = []
FindContainers ==
    /\ pc = "find"
    /\ containers' = FindReviewContainers(page)
    /\ idx' = 1
    /\ pc' = "loop"
    /\ UNCHANGED <<page, room_url, max_items, reviews, examined, raised, detectCalls>>
    /\ UNCHANGED mainVars

\* break
LoopBreak ==
    /\ pc = "loop" /\ idx <= Len(containers)
    /\ LimitReached
    /\ pc' = "done"
    /\ UNCHANGED <<page, room_url, max_items, containers, idx, reviews, examined,
                   raised, detectCalls>>
    /\ UNCHANGED mainVars

\* mutant of LoopRaise: the exception is not caught and leaves parse_reviews
LoopRaise_Propagates ==
    /\ pc = "loop" /\ idx <= Len(containers)
    /\ ~LimitReached
    /\ Current.fault
    /\ examined' = Append(examined, containers[idx])
    /\ raised' = TRUE
    /\ pc' = "done"
    /\ UNCHANGED <<page, room_url, max_items, containers, idx, reviews, detectCalls>>
    /\ UNCHANGED mainVars

\* _parse_single_review raises: logged, continue
LoopRaise ==
    /\ pc = "loop" /\ idx <= Len(containers)
    /\ ~LimitReached
    /\ Current.fault
    /\ examined' = Append(examined, containers[idx])
    /\ idx' = idx + 1
    /\ UNCHANGED <<page, room_url, max_items, pc, containers, reviews, raised,
                   detectCalls>>
    /\ UNCHANGED mainVars

\* mutant of LoopAppend: "if review" drops a record in which no comment
\* and no review id were found
LoopAppend_DropsEmpty ==
    /\ pc = "loop" /\ idx <= Len(containers)
    /\ ~LimitReached
    /\ ~Current.fault
    /\ examined' = Append(examined, containers[idx])
    /\ detectCalls' = detectCalls \o DetectCallsOf(Current)
    /\ reviews' = IF ExtractComment(Current) = NoText /\ ReviewId(Current) = None
                  THEN reviews
                  ELSE Append(reviews, ParseSingleReview(Current, room_url))
    /\ idx' = idx + 1
    /\ UNCHANGED <<page, room_url, max_items, pc, containers, raised>>
    /\ UNCHANGED mainVars

\* _parse_single_review returns the record (a non-empty dict, so "if review"
\* holds): reviews.append(review)
LoopAppend ==
    /\ pc = "loop" /\ idx <= Len(containers)
    /\ ~LimitReached
    /\ ~Current.fault
    /\ examined' = Append(examined, containers[idx])
    /\ detectCalls' = detectCalls \o DetectCallsOf(Current)
    /\ reviews' = Append(reviews, ParseSingleReview(Current, room_url))
    /\ idx' = idx + 1
    /\ UNCHANGED <<page, room_url, max_items, pc, containers, raised>>
    /\ UNCHANGED mainVars

\* the loop is exhausted: return reviews
LoopEnd ==
    /\ pc = "loop" /\ idx > Len(containers)
    /\ pc' = "done"
    /\ UNCHANGED <<page, room_url, max_items, containers, idx, reviews, examined,
                   raised, detectCalls>>
    /\ UNCHANGED mainVars

Next == FindContainers \/ LoopBreak \/ LoopRaise \/ LoopAppend \/ LoopEnd

-----------------------------------------------------------------------------
(* Inputs. *)

RoomUrls == {"https://www.airbnb.com/rooms/1", "https://www.airbnb.com/rooms/2"}

\* max_items: None or 0..MaxItems
Limits == {NoLimit} \cup {<<m>> : m \in 0..MaxItems}

\* the sequences over S of length at most n
SeqsUpTo(S, n) == UNION {[1..k -> S] : k \in 0..n}

\* main is not running
MainIdle ==
    /\ main_pc = "idle"
    /\ input_cfg = [roomUrls |-> [kind |-> "list", urls |-> <<>>], format |-> None]
    /\ settings = [concurrent_requests |-> 2, output_format |-> "json"]
    /\ cli_format = None
    /\ output_format = None
    /\ futures = <<>>
    /\ yielded = {}
    /\ all_reviews = <<>>
    /\ error = None

\* the state at the call parse_reviews(html, room_url, max_items)
InitWith(pages, urls, limits) ==
    /\ page \in pages
    /\ room_url \in urls
    /\ max_items \in limits
    /\ pc = "find"
    /\ containers = <<>>
    /\ idx = 1
    /\ reviews = <<>>
    /\ examined = <<>>
    /\ raised = FALSE
    /\ detectCalls = <<>>
    /\ MainIdle

\* an <article> in which no extractor finds anything
BareReview == Node("article")

\* an <article> with every field present
FullReview ==
    [Node("article") EXCEPT
        !.id = "review-42",
        !.text = <<"Superhost">>,
        !.elems = <<
            [Elem("p") EXCEPT !.text = <<" ", "Great", " ", "stay", " ">>],
            [Elem("span") EXCEPT !.itemprop = "ratingValue", !.content = "4.5"],
            [Elem("time") EXCEPT !.datetime = <<"2023-03-15">>],
            [Elem("section") EXCEPT !.testid = "host-response",
                                    !.text = <<"Thank", " ", "you">>],
            [Elem("div") EXCEPT !.cls = {"review-photos"}]>>,
        !.links = <<
            Link("/users/show/123", <<"Anna">>, 0),
            Link("/users/show/456", <<"Response", " ", "from", " ", "Maria">>, 4)>>,
        !.imgs = <<
            [Img(0) EXCEPT !.src = "anna.jpg", !.alt = <<"Profile", " ", "photo">>],
            [Img(4) EXCEPT !.src = "a.jpg"],
            [Img(5) EXCEPT !.src = "room.jpg", !.testid = "review-photo"]>>]

\* an <article> whose extraction raises
FaultyReview == [FullReview EXCEPT !.fault = TRUE]

BatchNodes == {BareReview, FullReview, FaultyReview}

Init == InitWith(SeqsUpTo(BatchNodes, MaxPage), RoomUrls, Limits)

Spec == Init /\ [][Next]_vars

-----------------------------------------------------------------------------
(* Claims about parse_reviews as a whole, checked under Spec. *)

\* what _find_review_containers locates on the page
Located == FindReviewContainers(page)

\* the located containers whose extraction does not raise, in document order
GoodOnes == SetToSeq({Located[k] : k \in {k \in 1..Len(Located) : ~page[Located[k]].fault}})

\* the examined containers whose extraction did not raise, in examination order
Sources ==
    [k \in 1..Len(Where(examined, LAMBDA i : ~page[i].fault)) |->
        examined[Where(examined, LAMBDA i : ~page[i].fault)[k]]]

\* C1: no exception leaves parse_reviews; when it has returned, no record
\* comes from a raising container, and every non-raising container yields its
\* record, also after a raising one, up to max_items records.
C1_FailureIsolated ==
    /\ ~raised
    /\ pc = "done" =>
        /\ Len(reviews) <= Len(GoodOnes)
        /\ \A k \in 1..Len(reviews) :
              reviews[k] = ParseSingleReview(page[GoodOnes[k]], room_url)
        /\ \A k \in 1..Len(GoodOnes) :
              (max_items = NoLimit \/ k <= max_items[1]) => k <= Len(reviews)

\* C1 witness: returned after a raising container was followed by one that
\* yielded a record
C1_Witness ==
    /\ pc = "done"
    /\ \E i, j \in 1..Len(examined) :
          i < j /\ page[examined[i]].fault /\ ~page[examined[j]].fault
    /\ Len(reviews) >= 1

\* C2: with max_items = m and n located containers of which none raises,
\* exactly min(m, n) records are returned, those of the first min(m, n)
\* containers; in general the records are those of the first m containers
\* that do not raise; and once m records are collected, no container after
\* the one that gave the m-th record is examined.
C2_MaxItems ==
    (pc = "done" /\ max_items # NoLimit) =>
        LET m == max_items[1]
            n == Len(Located)
        IN  /\ Len(GoodOnes) = n =>
                /\ Len(reviews) = IF m <= n THEN m ELSE n
                /\ \A k \in 1..Len(reviews) :
                      reviews[k] = ParseSingleReview(page[Located[k]], room_url)
            /\ Len(reviews) = IF m <= Len(GoodOnes) THEN m ELSE Len(GoodOnes)
            /\ \A k \in 1..Len(reviews) :
                  reviews[k] = ParseSingleReview(page[GoodOnes[k]], room_url)
            /\ Len(reviews) = m =>
                /\ examined = SubSeq(Located, 1, Len(examined))
                /\ m = 0 => examined = <<>>
                /\ m > 0 => examined[Len(examined)] = GoodOnes[m]

\* C2 witness: returned with max_items = 2 records from a page with more
\* than 2 containers, the last of them not examined
C2_Witness ==
    /\ pc = "done"
    /\ max_items = <<2>>
    /\ Len(Located) > 2
    /\ Len(reviews) = 2
    /\ Len(examined) < Len(Located)

DefaultReviewer ==
    [id |-> None, firstName |-> NoText, profilePath |-> None, pictureUrl |-> None,
     isSuperhost |-> FALSE, location |-> NoText]

DefaultHost ==
    [id |-> None, firstName |-> NoText, profilePath |-> None, pictureUrl |-> None,
     isSuperhost |-> FALSE]

\* C4: every record carries the caller's room_url and a reviewer and a host
\* sub-record with a boolean isSuperhost, all defaults when the container
\* holds nothing; and every examined container that did not raise has its
\* record in the output, whatever fields are absent.
C4_RecordShape ==
    /\ Len(reviews) = Len(Sources)
    /\ \A k \in 1..Len(reviews) :
          /\ reviews[k].roomUrl = room_url
          /\ DOMAIN reviews[k].reviewer = DOMAIN DefaultReviewer
          /\ DOMAIN reviews[k].host = DOMAIN DefaultHost
          /\ reviews[k].reviewer.isSuperhost \in BOOLEAN
          /\ reviews[k].host.isSuperhost \in BOOLEAN
          /\ page[Sources[k]] = BareReview =>
                /\ reviews[k].reviewer = DefaultReviewer
                /\ reviews[k].host = DefaultHost

\* C4 witness: a record emitted for a container in which nothing was found
C4_Witness ==
    /\ pc = "done"
    /\ \E k \in 1..Len(reviews) :
          /\ k <= Len(Sources) /\ page[Sources[k]] = BareReview
          /\ reviews[k].reviewId = None /\ reviews[k].comment = NoText
          /\ reviews[k].rating = Unset /\ reviews[k].createdAt = NoText
          /\ reviews[k].response = NoText /\ reviews[k].reviewPhotos = <<>>
          /\ reviews[k].host = DefaultHost

-----------------------------------------------------------------------------
(* The container locator, checked under SpecLocator: pages whose nodes     *)
(* differ in what the five strategies match.                               *)

LocatorNodes ==
    {[Node("div") EXCEPT !.rid = "r1"],
     [Node("article") EXCEPT !.rid = ""],
     [Node("div") EXCEPT !.testid = "review"],
     [Node("span") EXCEPT !.testid = "review"],
     [Node("div") EXCEPT !.itemprop = "review"],
     [Node("div") EXCEPT !.cls = {"review", "card"}],
     Node("article"),
     [Node("article") EXCEPT !.fault = TRUE],
     Node("div")}

InitLocator ==
    InitWith(SeqsUpTo(LocatorNodes, MaxNodes), {"https://www.airbnb.com/rooms/1"},
             {NoLimit, <<1>>})

SpecLocator == InitLocator /\ [][Next]_vars

\* what strategy k matches on the page, stated on the nodes
Matches(k) ==
    CASE k = 1 -> Where(page, LAMBDA n : n.rid # None)
      [] k = 2 -> Where(page, LAMBDA n : n.tag = "div" /\ n.testid = "review")
      [] k = 3 -> Where(page, LAMBDA n : n.tag = "div" /\ n.itemprop = "review")
      [] k = 4 -> Where(page, LAMBDA n : n.tag = "div" /\ "review" \in n.cls)
      [] k = 5 -> Where(page, LAMBDA n : n.tag = "article")

\* C3: the containers are exactly the matches of the first strategy, in the
\* order attribute, test-id, microdata, class, article, that matches a node;
\* when none matches there are no containers and parse_reviews returns the
\* empty list without raising.
C3_FirstStrategyOnly ==
    pc # "find" =>
        /\ \A k \in 1..5 :
              (Matches(k) # <<>> /\ \A j \in 1..(k - 1) : Matches(j) = <<>>)
                  => containers = Matches(k)
        /\ (\A k \in 1..5 : Matches(k) = <<>>) =>
              /\ containers = <<>>
              /\ ~raised
              /\ pc = "done" => reviews = <<>>

\* C3 witness: returned from a page on which the test-id strategy is the
\* first to match while the class and article strategies match other nodes
C3_Witness ==
    /\ pc = "done"
    /\ Matches(1) = <<>> /\ Matches(2) # <<>>
    /\ \E i \in 1..Len(page) : page[i].tag = "article"
    /\ \E i \in 1..Len(page) : "review" \in page[i].cls
    /\ containers = Matches(2)
    /\ Len(reviews) = Len(containers)

-----------------------------------------------------------------------------
(* The rating extractor, checked under SpecRating: containers that differ  *)
(* in the explicit rating attribute, the accessible labels and the text.   *)

\* an <article> made of the given child elements and own text
Article(elems, text) == [Node("article") EXCEPT !.elems = elems, !.text = text]

RatingAttrSamples ==
    {<<>>,
     <<[Elem("meta") EXCEPT !.itemprop = "ratingValue"],
       [Elem("meta") EXCEPT !.itemprop = "ratingValue", !.content = "4"]>>,
     <<[Elem("meta") EXCEPT !.itemprop = "ratingValue", !.content = "abc"]>>,
     <<[Elem("meta") EXCEPT !.itemprop = "ratingValue", !.content = "4.5"]>>,
     <<[Elem("meta") EXCEPT !.itemprop = "ratingValue", !.content = "9.5"]>>,
     <<[Elem("meta") EXCEPT !.itemprop = "ratingValue", !.content = "-1"]>>}

RatingLabelSamples ==
    {<<>>,
     <<[Elem("span") EXCEPT !.ariaLabel = <<"4.5", " ", "out", " ", "of", " ", "5">>]>>,
     <<[Elem("span") EXCEPT !.ariaLabel = <<"Verified", " ", "guest">>],
       [Elem("span") EXCEPT !.ariaLabel =
            <<"Rated", " ", "3.5", " ", "out", " ", "of", " ", "5", " ", "stars">>]>>,
     <<[Elem("span") EXCEPT !.ariaLabel = <<"10", " ", "out", " ", "of", " ", "5">>]>>,
     <<[Elem("span") EXCEPT !.ariaLabel = <<"4", " ", "Out", " ", "Of", " ", "5">>]>>}

RatingTextSamples ==
    {<<>>, <<"Score", " ", "2", " ", "/", " ", "5">>, <<"7", "/", "5">>}

RatingNodes ==
    {Article(a \o l, t) :
        a \in RatingAttrSamples, l \in RatingLabelSamples, t \in RatingTextSamples}
    \cup {FaultyReview}

InitRating ==
    InitWith(SeqsUpTo(RatingNodes, MaxDetail), {"https://www.airbnb.com/rooms/1"},
             {NoLimit, <<0>>})

SpecRating == InitRating /\ [][Next]_vars

\* C6 (as claimed): the rating of every record is unset or within [0, 5]
C6_RatingInRange ==
    \A k \in 1..Len(reviews) :
        reviews[k].rating = Unset
            \/ (reviews[k].rating[1] >= 0 /\ reviews[k].rating[1] <= 50)

\* the content of the first element with itemprop="ratingValue", None if
\* there is no such element
ExplicitRating(c) ==
    IF \E i \in 1..Len(c.elems) : c.elems[i].itemprop = "ratingValue"
    THEN c.elems[Min({i \in 1..Len(c.elems) : c.elems[i].itemprop = "ratingValue"})].content
    ELSE None

\* the aria-labels of the container, in document order
Labels(c) ==
    [k \in 1..Len(ElemsWhere(c, LAMBDA e : e.ariaLabel # NoText)) |->
        c.elems[ElemsWhere(c, LAMBDA e : e.ariaLabel # NoText)[k]].ariaLabel]

\* C7: the rating is the explicit attribute when it parses as a number;
\* otherwise the number of the first label "<number> out of 5"; otherwise the
\* number of "<number>/5" in the text; otherwise unset.  A label
\* "4.5 out of 5" without an explicit attribute gives 4.5, and a container
\* with no rating signal gives unset, not zero.
C7_RatingOrder ==
    \A k \in 1..Len(reviews) :
        LET c == page[Sources[k]]
            rating == reviews[k].rating
            labelHits == Where(Labels(c), LAMBDA l : OutOfSearch(l) # Unset)
            text == NodeText(c, <<" ">>)
        IN  /\ (Truthy(ExplicitRating(c)) /\ FloatParses(ExplicitRating(c)))
                  => rating = <<FloatOf(ExplicitRating(c))>>
            /\ (~(Truthy(ExplicitRating(c)) /\ FloatParses(ExplicitRating(c)))
                  /\ labelHits # <<>>)
                  => rating = OutOfSearch(Labels(c)[labelHits[1]])
            /\ (~(Truthy(ExplicitRating(c)) /\ FloatParses(ExplicitRating(c)))
                  /\ labelHits = <<>>)
                  => rating = SlashSearch(text)
            /\ (ExplicitRating(c) = None
                  /\ Labels(c) = <<<<"4.5", " ", "out", " ", "of", " ", "5">>>>)
                  => rating = <<45>>
            /\ (ExplicitRating(c) = "abc"
                  /\ Labels(c) = <<<<"4.5", " ", "out", " ", "of", " ", "5">>>>)
                  => rating = <<45>>
            /\ (ExplicitRating(c) = "4.5")  => rating = <<45>>
            /\ (ExplicitRating(c) = None /\ Labels(c) = <<>> /\ text = <<"7", "/", "5">>)
                  => rating = <<70>>
            /\ (ExplicitRating(c) = None /\ Labels(c) = <<>> /\ text = <<>>)
                  => rating = Unset

\* C7 witness: a record whose explicit attribute does not parse and whose
\* rating comes from the label although the text holds "<number>/5" too
C7_Witness ==
    /\ pc = "done"
    /\ \E k \in 1..Len(reviews) :
          /\ k <= Len(Sources)
          /\ ExplicitRating(page[Sources[k]]) = "abc"
          /\ Labels(page[Sources[k]]) = <<<<"4.5", " ", "out", " ", "of", " ", "5">>>>
          /\ NodeText(page[Sources[k]], <<" ">>) = <<"7", "/", "5">>
          /\ reviews[k].rating = <<45>>

-----------------------------------------------------------------------------
(* The date extractor, checked under SpecDates: containers that differ in  *)
(* their <time> element and their date spans.                              *)

DateTimeSamples ==
    {<<>>,
     <<[Elem("time") EXCEPT !.datetime = <<"2023-03-15">>, !.text = <<"March">>]>>,
     <<[Elem("time") EXCEPT !.datetime = <<"2021-12-01T10:30:00+02:00">>]>>,
     <<[Elem("time") EXCEPT !.text = <<" ", "15", " ", "March", " ", "2023", " ">>]>>,
     <<[Elem("time") EXCEPT !.text = <<"last", " ", "week">>]>>,
     <<[Elem("time") EXCEPT !.datetime = <<" ">>]>>,
     <<[Elem("time") EXCEPT !.text = <<" ">>]>>}

DateSpanSamples ==
    {<<>>,
     <<[Elem("span") EXCEPT !.testid = "review-date", !.text = <<"2023-03-15">>]>>,
     <<[Elem("span") EXCEPT !.itemprop = "datePublished", !.text = <<"yesterday">>]>>,
     <<[Elem("span") EXCEPT !.testid = "Review-Date"],
       [Elem("span") EXCEPT !.testid = "review-date", !.text = <<"2023-03-15">>]>>,
     <<[Elem("span") EXCEPT !.testid = "name", !.text = <<"2023-03-15">>]>>}

DateNodes ==
    {Article(t \o sp, <<>>) : t \in DateTimeSamples, sp \in DateSpanSamples}
    \cup {FaultyReview}

InitDates ==
    InitWith(SeqsUpTo(DateNodes, MaxDetail), {"https://www.airbnb.com/rooms/1"},
             {NoLimit, <<0>>})

SpecDates == InitDates /\ [][Next]_vars

\* the date text the container offers: the first <time>'s datetime attribute
\* or visible text, else the text of the first span that mentions "date"
CapturedDate(c) ==
    LET times == {i \in 1..Len(c.elems) : c.elems[i].tag = "time"}
        first == c.elems[Min(times)]
        fromTime == IF times = {} THEN NoText
                    ELSE IF first.datetime # NoText THEN first.datetime
                    ELSE Strip(first.text)
        spans == {i \in 1..Len(c.elems) :
                    c.elems[i].tag = "span" /\ MentionsDate(c.elems[i])}
    IN  IF fromTime # NoText THEN fromTime
        ELSE IF spans = {} THEN NoText
        ELSE Strip(c.elems[Min(spans)].text)

\* C5: in every record createdAt set implies localizedDate set; a captured
\* date text that does not parse leaves createdAt unset and localizedDate
\* equal to the raw text; without a captured date text both are unset.
C5_DatesPaired ==
    \A k \in 1..Len(reviews) :
        LET c == page[Sources[k]]
            r == reviews[k]
        IN  /\ r.createdAt # NoText => r.localizedDate # NoText
            /\ CapturedDate(c) = NoText =>
                  r.createdAt = NoText /\ r.localizedDate = NoText
            /\ (CapturedDate(c) # NoText /\ CapturedDate(c) \notin DOMAIN DateTable) =>
                  r.createdAt = NoText /\ r.localizedDate = CapturedDate(c)
            /\ CapturedDate(c) = <<"2023-03-15">> =>
                  /\ r.createdAt = <<"2023-03-15T00:00:00Z">>
                  /\ r.localizedDate = <<"March", " ", "2023">>

\* C5 witness: a record whose date text did not parse: createdAt unset,
\* localizedDate the raw text
C5_Witness ==
    /\ pc = "done"
    /\ \E k \in 1..Len(reviews) :
          /\ reviews[k].createdAt = NoText
          /\ reviews[k].localizedDate = <<"last", " ", "week">>

-----------------------------------------------------------------------------
(* The photo extractor, checked under SpecPhotos: one container whose      *)
(* images differ in marker attributes, sources and position.               *)

\* most images in a container
MaxImgs == 3

PhotoImgSamples ==
    {[Img(0) EXCEPT !.testid = "review-photo", !.src = "p1.jpg"],
     [Img(0) EXCEPT !.testid = "review-photo", !.origUri = "hi1.jpg", !.src = "p1.jpg"],
     [Img(0) EXCEPT !.origUri = "hi1.jpg"],
     [Img(0) EXCEPT !.origUri = "p1.jpg", !.src = "p2.jpg"],
     [Img(0) EXCEPT !.testid = "review-photo"],
     [Img(1) EXCEPT !.src = "p1.jpg"],
     [Img(2) EXCEPT !.src = "p2.jpg"],
     [Img(0) EXCEPT !.src = "p3.jpg"]}

\* a container with two photo divs and the given images
PhotoNode(imgs) ==
    [Node("article") EXCEPT
        !.elems = <<[Elem("div") EXCEPT !.cls = {"review-photos"}],
                    [Elem("div") EXCEPT !.cls = {"Image", "grid"}]>>,
        !.imgs = imgs]

PhotoNodes ==
    {PhotoNode(imgs) : imgs \in SeqsUpTo(PhotoImgSamples, MaxImgs)}
    \cup {FaultyReview}

InitPhotos ==
    InitWith(SeqsUpTo(PhotoNodes, 1), {"https://www.airbnb.com/rooms/1"},
             {NoLimit, <<0>>})

SpecPhotos == InitPhotos /\ [][Next]_vars

\* the urls of the images under a photo marker, as the extractor visits
\* them: all images with data-testid="review-photo", then all images with a
\* data-original-uri; of each image the data-original-uri, else the src
MarkerUrls(c) ==
    LET url(g) == IF g.origUri \notin {None, ""} THEN g.origUri ELSE g.src
        first == SetToSeq({i \in 1..Len(c.imgs) : c.imgs[i].testid = "review-photo"})
        second == SetToSeq({i \in 1..Len(c.imgs) : c.imgs[i].origUri # None})
        visited == first \o second
    IN  [k \in 1..Len(visited) |-> url(c.imgs[visited[k]])]

\* the position of the first occurrence of url in urls
FirstAt(urls, url) == Min({i \in 1..Len(urls) : urls[i] = url})

\* C8: reviewPhotos holds no url twice and lists the urls in the order of
\* their first occurrence among the images visited; the images of photo /
\* image divs contribute only when the marker selectors gave no url.
C8_PhotosDistinct ==
    \A k \in 1..Len(reviews) :
        LET c == page[Sources[k]]
            photos == reviews[k].reviewPhotos
            marked == {MarkerUrls(c)[i] : i \in 1..Len(MarkerUrls(c))} \ {None, ""}
            urls == IF marked # {} THEN MarkerUrls(c) ELSE FallbackPhotoUrls(c)
        IN  /\ \A i, j \in 1..Len(photos) : i # j => photos[i] # photos[j]
            /\ {photos[i] : i \in 1..Len(photos)}
                  = {urls[i] : i \in 1..Len(urls)} \ {None, ""}
            /\ \A i, j \in 1..Len(photos) :
                  i < j => FirstAt(urls, photos[i]) < FirstAt(urls, photos[j])
            /\ marked # {} => \A i \in 1..Len(photos) : photos[i] \in marked

\* C8 witness: a record of a container in which one source occurs under both
\* marker selectors and a photo div holds a further image: the source is
\* listed once and the div's image is not listed
C8_Witness ==
    /\ pc = "done"
    /\ \E k \in 1..Len(reviews) :
          /\ k <= Len(Sources)
          /\ \E i, j \in 1..Len(MarkerUrls(page[Sources[k]])) :
                i # j /\ MarkerUrls(page[Sources[k]])[i] = "hi1.jpg"
                      /\ MarkerUrls(page[Sources[k]])[j] = "hi1.jpg"
          /\ \E i \in 1..Len(page[Sources[k]].imgs) :
                page[Sources[k]].imgs[i] = [Img(2) EXCEPT !.src = "p2.jpg"]
          /\ reviews[k].reviewPhotos = <<"hi1.jpg">>

-----------------------------------------------------------------------------
(* Language detection, checked under SpecLanguage: containers that differ  *)
(* in their comment elements and in what the detector answers.             *)

CommentSamples ==
    {<<>>,
     <<[Elem("p") EXCEPT !.text = <<" ", "\n", " ">>]>>,
     <<[Elem("p") EXCEPT !.text = <<" ", "Great", " ", "stay", " ">>]>>,
     <<Elem("q"), [Elem("p") EXCEPT !.text = <<"Nice">>]>>,
     <<[Elem("p") EXCEPT !.text = <<"Nice">>],
       [Elem("div") EXCEPT !.testid = "review-comments",
                           !.text = <<"Muy", " ", "bien">>]>>,
     <<[Elem("span") EXCEPT !.text = <<"Anna">>],
       [Elem("span") EXCEPT !.text = <<"Lovely", " ", "place">>],
       [Elem("span") EXCEPT !.text = <<" ">>]>>,
     <<[Elem("span") EXCEPT !.text = <<" ">>], Elem("blockquote")>>}

LanguageNodes ==
    {[Article(e, <<>>) EXCEPT !.detect = d] :
        e \in CommentSamples, d \in {"en", "es", "LangDetectException"}}
    \cup {FaultyReview}

InitLanguage ==
    InitWith(SeqsUpTo(LanguageNodes, MaxDetail), {"https://www.airbnb.com/rooms/1"},
             {NoLimit, <<0>>})

SpecLanguage == InitLanguage /\ [][Next]_vars

\* the comments of the records that have one, in record order
CommentsOf(recs) ==
    [k \in 1..Len(Where(recs, LAMBDA r : r.comment # NoText)) |->
        recs[Where(recs, LAMBDA r : r.comment # NoText)[k]].comment]

\* every text node of the container is empty or white space
Blank(c) ==
    /\ \A i \in 1..Len(c.elems) : \A j \in 1..Len(c.elems[i].text) : IsWs(c.elems[i].text[j])
    /\ \A j \in 1..Len(c.text) : IsWs(c.text[j])
    /\ c.links = <<>>

\* C9: a record without a comment has no language, and the detector was
\* called for the records with a comment only; a container with nothing but
\* white space has no comment; when the detector fails with
\* LangDetectException the language is unset, nothing is raised, and the
\* record is emitted with every other field as when detection succeeds.
C9_LanguageUnset ==
    /\ ~raised
    /\ detectCalls = CommentsOf(reviews)
    /\ \A k \in 1..Len(reviews) :
          LET c == page[Sources[k]]
              r == reviews[k]
          IN  /\ r.comment = NoText => r.language = None
              /\ Blank(c) => r.comment = NoText
              /\ (r.comment # NoText /\ c.detect = "LangDetectException") =>
                    /\ r.language = None
                    /\ [r EXCEPT !.language = "en"]
                          = ParseSingleReview([c EXCEPT !.detect = "en"], room_url)
              /\ (r.comment # NoText /\ c.detect # "LangDetectException") =>
                    r.language = c.detect

\* C9 witness: a record with a comment whose detection failed
C9_Witness ==
    /\ pc = "done"
    /\ \E k \in 1..Len(reviews) :
          /\ k <= Len(Sources)
          /\ page[Sources[k]].detect = "LangDetectException"
          /\ reviews[k].comment = <<"Great", " ", "stay">>
          /\ reviews[k].language = None
          /\ detectCalls = <<reviews[k].comment>>

-----------------------------------------------------------------------------
(* The host link, checked under SpecHost: containers that differ in their  *)
(* host-response region, the links inside and outside it, and the text.    *)

\* the host-response regions: none, a section, a div, or a section followed
\* by a div
RegionSamples(text) ==
    {<<>>,
     <<[Elem("section") EXCEPT !.testid = "host-response", !.text = text]>>,
     <<[Elem("div") EXCEPT !.testid = "review-detail-host-response", !.text = text]>>,
     <<[Elem("section") EXCEPT !.testid = "host-response"],
       [Elem("div") EXCEPT !.testid = "review-detail-host-response", !.text = text]>>}

RegionTextSamples ==
    {<<"Thank", " ", "you">>,
     <<"Response", " ", "from", " ", "Maria", ":", " ", "thanks">>}

\* links inside the last region
RegionLinkSamples(region) ==
    {<<>>,
     <<Link("/users/show/456", <<"Response", " ", "from", " ", "Maria">>, Len(region))>>,
     <<Link("/rooms/1", <<"the", " ", "room">>, Len(region))>>}

\* links outside any region
OutsideLinkSamples == {<<>>, <<Link("/users/show/123", <<"Anna">>, 0)>>}

OwnTextSamples == {<<>>, <<"A", " ", "response", " ", "from", " ", "the", " ", "owner">>}

HostNodes ==
    UNION {{[Node("article") EXCEPT !.elems = region, !.text = own,
                                    !.links = outside \o inside] :
                inside \in RegionLinkSamples(region),
                outside \in OutsideLinkSamples,
                own \in OwnTextSamples} :
           region \in UNION {RegionSamples(t) : t \in RegionTextSamples}}
    \cup {FaultyReview}

InitHost ==
    InitWith(SeqsUpTo(HostNodes, MaxDetail), {"https://www.airbnb.com/rooms/1"},
             {NoLimit, <<0>>})

SpecHost == InitHost /\ [][Next]_vars

\* the host-response regions of the container, as positions in c.elems
Regions(c) ==
    {i \in 1..Len(c.elems) :
        \/ c.elems[i].tag = "section" /\ c.elems[i].testid = "host-response"
        \/ c.elems[i].tag = "div" /\ c.elems[i].testid = "review-detail-host-response"}

\* the links with a user-profile target inside a region / anywhere
RegionProfileLinks(c) ==
    {i \in 1..Len(c.links) :
        c.links[i].parent \in Regions(c) /\ ProfileHref(c.links[i].href)}

AllProfileLinks(c) == {i \in 1..Len(c.links) : ProfileHref(c.links[i].href)}

\* "response from", in any letter case, in the text of the container
SaysResponseFrom(c) ==
    \E i \in 1..(Len(NodeText(c, <<" ">>)) - 2) :
        /\ LowerTok(NodeText(c, <<" ">>)[i]) = "response"
        /\ NodeText(c, <<" ">>)[i + 1] = " "
        /\ LowerTok(NodeText(c, <<" ">>)[i + 2]) = "from"

HostIdentityUnset(h) == h.id = None /\ h.profilePath = None /\ h.firstName = NoText

\* the host's identity fields are those of link l
HostIdentityFrom(h, l) ==
    /\ h.profilePath = l.href
    /\ h.id = ExtractUserIdFromHref(l.href)
    /\ h.firstName = StripResponseFrom(Strip(l.text))

\* C10 (as claimed): in a container with a host-response region the host's
\* identity fields come from a profile link inside the region only: unset
\* when the region holds none, never those of a link outside the region.
C10_HostOnlyFromRegion ==
    \A k \in 1..Len(reviews) :
        LET c == page[Sources[k]]
            h == reviews[k].host
        IN  Regions(c) # {} =>
              IF RegionProfileLinks(c) = {} THEN HostIdentityUnset(h)
              ELSE \E i \in RegionProfileLinks(c) : HostIdentityFrom(h, c.links[i])

\* C10 (amended): in a container with a host-response region, the host's
\* identity fields are those of a profile link inside the region when there
\* is one; when there is none they are unset if the container's text does
\* not say "response from", and otherwise they are those of the first
\* profile link anywhere in the container, unset if it has none.
C10_HostFromRegionOrFallback ==
    \A k \in 1..Len(reviews) :
        LET c == page[Sources[k]]
            h == reviews[k].host
        IN  Regions(c) # {} =>
              IF RegionProfileLinks(c) # {}
              THEN \E i \in RegionProfileLinks(c) : HostIdentityFrom(h, c.links[i])
              ELSE IF ~SaysResponseFrom(c) \/ AllProfileLinks(c) = {}
              THEN HostIdentityUnset(h)
              ELSE HostIdentityFrom(h, c.links[Min(AllProfileLinks(c))])

\* C10 witness: a record of a container whose region holds no profile link
\* and whose text says "Response from": the host's identity is the
\* reviewer's link, which lies outside the region
C10_Witness ==
    /\ pc = "done"
    /\ \E k \in 1..Len(reviews) :
          /\ k <= Len(Sources)
          /\ Regions(page[Sources[k]]) # {}
          /\ RegionProfileLinks(page[Sources[k]]) = {}
          /\ SaysResponseFrom(page[Sources[k]])
          /\ reviews[k].host.profilePath = "/users/show/123"
          /\ reviews[k].host.id = "123"
          /\ reviews[k].host.firstName = <<"Anna">>
          /\ reviews[k].reviewer.profilePath = "/users/show/123"

-----------------------------------------------------------------------------
(* The host picture, checked under SpecHostPicture: containers that differ *)
(* in their host-response regions and in the images inside and outside.    *)

\* the <img> elements inside elems[parent]: none, one without a src, one
\* with an empty src, one with a src, one with a src after one without, two
\* with a src
RegionImgSamples(parent, first, second) ==
    {<<>>,
     <<Img(parent)>>,
     <<[Img(parent) EXCEPT !.src = ""]>>,
     <<[Img(parent) EXCEPT !.src = first]>>,
     <<Img(parent), [Img(parent) EXCEPT !.src = first]>>,
     <<[Img(parent) EXCEPT !.src = first], [Img(parent) EXCEPT !.src = second]>>}

\* <img> elements directly in the container, outside any region
TopImgSamples == {<<>>, <<[Img(0) EXCEPT !.src = "b.jpg"]>>}

HostPictureNodes ==
    {[Node("article") EXCEPT !.imgs = top] : top \in TopImgSamples}
    \cup {[Node("article") EXCEPT
              !.elems = <<[Elem("section") EXCEPT !.testid = "host-response"]>>,
              !.imgs = top \o inside] :
            top \in TopImgSamples, inside \in RegionImgSamples(1, "a.jpg", "c.jpg")}
    \cup {[Node("article") EXCEPT
              !.elems = <<[Elem("div") EXCEPT !.testid = "review-detail-host-response"]>>,
              !.imgs = inside \o top] :
            top \in TopImgSamples, inside \in RegionImgSamples(1, "a.jpg", "c.jpg")}
    \cup {[Node("article") EXCEPT
              !.elems = <<[Elem("div") EXCEPT !.testid = "review-detail-host-response"],
                          [Elem("section") EXCEPT !.testid = "host-response"]>>,
              !.imgs = top \o inDiv \o inSection] :
            top \in TopImgSamples,
            inDiv \in RegionImgSamples(1, "d.jpg", "e.jpg"),
            inSection \in RegionImgSamples(2, "a.jpg", "c.jpg")}
    \cup {FaultyReview}

InitHostPicture ==
    InitWith(SeqsUpTo(HostPictureNodes, MaxDetail), {"https://www.airbnb.com/rooms/1"},
             {NoLimit, <<0>>})

SpecHostPicture == InitHostPicture /\ [][Next]_vars

\* the images with a source inside a host-response region, as positions in
\* c.imgs
RegionPictures(c) ==
    {i \in 1..Len(c.imgs) : c.imgs[i].parent \in Regions(c) /\ Truthy(c.imgs[i].src)}

\* C11: the host's pictureUrl is unset when no host-response region of the
\* container holds an image with a source, whatever images lie elsewhere;
\* otherwise it is the source of an image inside a region, the first one
\* with a source there.
C11_HostPictureFromRegion ==
    \A k \in 1..Len(reviews) :
        LET c == page[Sources[k]]
            p == reviews[k].host.pictureUrl
        IN  IF RegionPictures(c) = {} THEN p = None
            ELSE \E i \in RegionPictures(c) :
                    /\ p = c.imgs[i].src
                    /\ \A j \in RegionPictures(c) :
                          c.imgs[j].parent = c.imgs[i].parent => i <= j

\* C11 witness: a record of a container with a.jpg inside the region and
\* b.jpg directly in the container, and a record of a container with b.jpg
\* only
C11_Witness ==
    /\ pc = "done"
    /\ \E k \in 1..Len(reviews) :
          /\ k <= Len(Sources)
          /\ \E i \in RegionPictures(page[Sources[k]]) :
                page[Sources[k]].imgs[i].src = "a.jpg"
          /\ \E i \in 1..Len(page[Sources[k]].imgs) :
                /\ page[Sources[k]].imgs[i].parent = 0
                /\ page[Sources[k]].imgs[i].src = "b.jpg"
          /\ reviews[k].host.pictureUrl = "a.jpg"

-----------------------------------------------------------------------------
(* The host's first name, checked under SpecFirstName: containers whose    *)
(* host-response region holds one profile link, with different link texts. *)

\* the text node of the host link
HostLinkTextSamples ==
    {<<"Response", " ", "from", " ", "Maria">>,
     <<"response", " ", "from", " ", "maria">>,
     <<"RESPONSE", " ", "FROM", " ", "Maria">>,
     <<"Response", " ", "from", " ", "Maria", " ", "Luisa">>,
     <<"Response", " ", "from", " ", " ", "Maria">>,
     <<"Response", " ", "from", "\n", "Maria">>,
     <<"\n", " ", "Response", " ", "from", " ", "Maria", " ", "\n">>,
     <<"Response", " ", " ", "from", " ", "Maria">>,
     <<"Response", "\n", "from", " ", "Maria">>,
     <<"Response", " ", "from">>,
     <<"Response", " ", "from", " ">>,
     <<"A", " ", "response", " ", "from", " ", "Maria">>,
     <<"Maria">>,
     <<" ", "Maria", " ">>,
     <<" ", "\n">>,
     <<>>}

FirstNameNodes ==
    {[Node("article") EXCEPT
         !.elems = <<[Elem("section") EXCEPT !.testid = "host-response",
                                             !.text = <<"Thank", " ", "you">>]>>,
         !.links = <<Link("/users/show/456", text, 1)>>] :
       text \in HostLinkTextSamples}
    \cup {FaultyReview}

InitFirstName ==
    InitWith(SeqsUpTo(FirstNameNodes, MaxDetail + 1), {"https://www.airbnb.com/rooms/1"},
             {NoLimit, <<0>>})

SpecFirstName == InitFirstName /\ [][Next]_vars

\* t begins with "Response from", in any letter case, followed by white space
LeadingPhrase(t) ==
    /\ Len(t) >= 4
    /\ LowerTok(t[1]) = "response" /\ t[2] = " " /\ LowerTok(t[3]) = "from"
    /\ IsWs(t[4])

\* what follows the white space after the phrase
AfterPhrase(t) ==
    SubSeq(t, Min({i \in 4..(Len(t) + 1) : i > Len(t) \/ ~IsWs(t[i])}), Len(t))

\* C12: with t the visible text of the accepted host link (stripped of
\* surrounding white space), the host's firstName is unset when t is empty,
\* is what follows "Response from" and the white space after it when t begins
\* with that phrase in any letter case, and is t unchanged otherwise.
C12_FirstNameStripped ==
    \A k \in 1..Len(reviews) :
        LET c == page[Sources[k]]
            n == reviews[k].host.firstName
        IN  FindHostLink(c) # 0 =>
              LET t == Strip(c.links[FindHostLink(c)].text)
              IN  /\ t = <<>> => n = NoText
                  /\ (t # <<>> /\ LeadingPhrase(t)) => n = AfterPhrase(t)
                  /\ (t # <<>> /\ ~LeadingPhrase(t)) => n = t
                  /\ t = <<"Response", " ", "from", " ", "Maria">> => n = <<"Maria">>
                  /\ t = <<"response", " ", "from", " ", "maria">> => n = <<"maria">>

\* C12 witness: the records of two containers, the host link of one reading
\* "response from maria" and of the other "Maria"
C12_Witness ==
    /\ pc = "done"
    /\ Len(reviews) = 2 /\ Len(Sources) = 2
    /\ page[Sources[1]].links[1].text = <<"response", " ", "from", " ", "maria">>
    /\ reviews[1].host.firstName = <<"maria">>
    /\ reviews[1].host.id = "456"
    /\ page[Sources[2]].links[1].text = <<"Maria">>
    /\ reviews[2].host.firstName = <<"Maria">>

-----------------------------------------------------------------------------
(* The reviewer's picture, checked under SpecPicture: containers that      *)
(* differ in their images' labels, sizes and sources.                       *)

\* <img> elements: labelled as a profile picture with and without a src,
\* sized 80x80, 32x32, 40x32, 81x32 and 120x120, with a width that is no
\* integer, with a width only, and sized but without a src
PictureImgSamples ==
    {[Img(0) EXCEPT !.src = "anna.jpg", !.alt = <<"Profile", " ", "photo">>],
     [Img(0) EXCEPT !.alt = <<"User", " ", "avatar">>],
     [Img(0) EXCEPT !.src = "big.jpg", !.width = "80", !.height = "80"],
     [Img(0) EXCEPT !.src = "small.jpg", !.width = "32", !.height = "32"],
     [Img(0) EXCEPT !.src = "mid.jpg", !.width = "40", !.height = "32"],
     [Img(0) EXCEPT !.src = "wide.jpg", !.width = "81", !.height = "32"],
     [Img(0) EXCEPT !.src = "room.jpg", !.width = "120", !.height = "120"],
     [Img(0) EXCEPT !.src = "auto.jpg", !.width = "auto", !.height = "32"],
     [Img(0) EXCEPT !.src = "half.jpg", !.width = "32"],
     [Img(0) EXCEPT !.width = "32", !.height = "32"]}

PictureNodes ==
    {[Node("article") EXCEPT !.imgs = imgs] : imgs \in SeqsUpTo(PictureImgSamples, MaxImgs)}
    \cup {FaultyReview}

InitPicture ==
    InitWith(SeqsUpTo(PictureNodes, 1), {"https://www.airbnb.com/rooms/1"},
             {NoLimit, <<0>>})

SpecPicture == InitPicture /\ [][Next]_vars

\* the images with a source whose label mentions "profile" or "avatar"
LabelledPictures(c) ==
    {i \in 1..Len(c.imgs) : AvatarAlt(c.imgs[i].alt) /\ Truthy(c.imgs[i].src)}

\* the images with a source whose width and height are integers, the longer
\* side at most 80
SmallPictures(c) ==
    {i \in 1..Len(c.imgs) :
        /\ IntParses(c.imgs[i].width) /\ IntParses(c.imgs[i].height)
        /\ IntOf(c.imgs[i].width) <= AvatarMax /\ IntOf(c.imgs[i].height) <= AvatarMax
        /\ Truthy(c.imgs[i].src)}

LongerSide(g) == IF IntOf(g.width) >= IntOf(g.height) THEN IntOf(g.width) ELSE IntOf(g.height)

\* C13 (as claimed): the reviewer's pictureUrl is the source of a labelled
\* image when there is one with a source; otherwise that of the smallest
\* image among those with the longer side at most 80; otherwise unset.
C13_PictureSmallest ==
    \A k \in 1..Len(reviews) :
        LET c == page[Sources[k]]
            p == reviews[k].reviewer.pictureUrl
        IN  IF LabelledPictures(c) # {}
            THEN \E i \in LabelledPictures(c) : p = c.imgs[i].src
            ELSE IF SmallPictures(c) # {}
            THEN \E i \in SmallPictures(c) :
                    /\ p = c.imgs[i].src
                    /\ \A j \in SmallPictures(c) :
                          LongerSide(c.imgs[i]) <= LongerSide(c.imgs[j])
            ELSE p = None

\* C13 (amended): the reviewer's pictureUrl is the source of the first
\* labelled image with a source when there is one; otherwise that of the
\* first image in document order among those with a source whose width and
\* height are integers, the longer side at most 80; otherwise unset.
C13_PictureFirstSmall ==
    \A k \in 1..Len(reviews) :
        LET c == page[Sources[k]]
            p == reviews[k].reviewer.pictureUrl
        IN  IF LabelledPictures(c) # {}
            THEN p = c.imgs[Min(LabelledPictures(c))].src
            ELSE IF SmallPictures(c) # {}
            THEN p = c.imgs[Min(SmallPictures(c))].src
            ELSE p = None

\* C13 witness: a record of a container with no labelled image whose first
\* small image, 80x80, comes before a smaller one, 32x32: the picture is the
\* first
C13_Witness ==
    /\ pc = "done"
    /\ \E k \in 1..Len(reviews) :
          /\ k <= Len(Sources)
          /\ LabelledPictures(page[Sources[k]]) = {}
          /\ \E i, j \in SmallPictures(page[Sources[k]]) :
                /\ i < j
                /\ page[Sources[k]].imgs[i].src = "big.jpg"
                /\ page[Sources[k]].imgs[j].src = "small.jpg"
          /\ reviews[k].reviewer.pictureUrl = "big.jpg"

-----------------------------------------------------------------------------
(* main: the batch run.  The workers of the ThreadPoolExecutor run         *)
(* scrape_room, one room each; the main thread submits the rooms, takes    *)
(* the futures as they complete, and exports what it collected.  A record  *)
(* that scrape_room returns is identified by its room and the position of  *)
(* its container among the records of that room.                           *)

RoomUrl(t) == "https://www.airbnb.com/rooms/" \o ToString(t)

\* what parse_reviews returns for room t when it builds n records
Records(t, n) == [i \in 1..n |-> [roomUrl |-> RoomUrl(t), container |-> i]]

\* input_cfg["roomUrls"]
room_urls == input_cfg.roomUrls.urls

\* the formats export_reviews dispatches on
SupportedFormats == {"json", "jsonl", "csv", "excel", "html", "xml"}

\* str.lower() of a format name
LowerFormat(f) ==
    CASE f = "CSV" -> "csv"
      [] f = "YAML" -> "yaml"
      [] OTHER -> f

\* fmt = (cli_format or input_cfg.get("output", {}).get("format")
\*        or settings.get("output_format") or "json").lower()
DetermineOutput(cfg, sets, cli) ==
    LowerFormat(IF Truthy(cli) THEN cli
                ELSE IF Truthy(cfg.format) THEN cfg.format
                ELSE IF Truthy(sets.output_format) THEN sets.output_format
                ELSE "json")

\* concurrent_requests = max(1, int(settings.get("concurrent_requests", 2)))
concurrent_requests == Max({1, settings.concurrent_requests})

\* a future just submitted
PendingFuture == [state |-> "pending", result |-> <<>>, exception |-> FALSE]

Pending == {t \in 1..Len(futures) : futures[t].state = "pending"}
Running == {t \in 1..Len(futures) : futures[t].state = "running"}

\* input_cfg = load_input(input_path): ValueError when roomUrls is missing
\* or is not a list
LoadInput ==
    /\ main_pc = "load_input"
    /\ IF input_cfg.roomUrls.kind # "list"
       THEN error' = "ValueError" /\ main_pc' = "aborted"
       ELSE error' = error /\ main_pc' = "determine_output"
    /\ UNCHANGED <<input_cfg, settings, cli_format, output_format, futures, yielded,
                   all_reviews>>
    /\ UNCHANGED parseVars

\* output_format, output_path = determine_output(...); return if there are
\* no room urls
DetermineFormat ==
    /\ main_pc = "determine_output"
    /\ output_format' = DetermineOutput(input_cfg, settings, cli_format)
    /\ main_pc' = IF room_urls = <<>> THEN "done" ELSE "submit"
    /\ UNCHANGED <<input_cfg, settings, cli_format, futures, yielded, all_reviews, error>>
    /\ UNCHANGED parseVars

\* executor.submit(scrape_room, url, ...) for the next url of room_urls
Submit ==
    /\ main_pc = "submit"
    /\ Len(futures) < Len(room_urls)
    /\ futures' = Append(futures, PendingFuture)
    /\ main_pc' = IF Len(futures) + 1 = Len(room_urls) THEN "collect" ELSE "submit"
    /\ UNCHANGED <<input_cfg, settings, cli_format, output_format, yielded, all_reviews,
                   error>>
    /\ UNCHANGED parseVars

\* mutant of WorkerStart: the pool starts a thread for every work item
WorkerStart_Unbounded ==
    /\ main_pc \in {"submit", "collect"}
    /\ Pending # {}
    /\ futures' = [futures EXCEPT ![Min(Pending)].state = "running"]
    /\ UNCHANGED <<main_pc, input_cfg, settings, cli_format, output_format, yielded,
                   all_reviews, error>>
    /\ UNCHANGED parseVars

\* a worker thread of the pool, of which there are max_workers at most, takes
\* the oldest work item and calls scrape_room
WorkerStart ==
    /\ main_pc \in {"submit", "collect"}
    /\ Pending # {}
    /\ Cardinality(Running) < concurrent_requests
    /\ futures' = [futures EXCEPT ![Min(Pending)].state = "running"]
    /\ UNCHANGED <<main_pc, input_cfg, settings, cli_format, output_format, yielded,
                   all_reviews, error>>
    /\ UNCHANGED parseVars

\* scrape_room: session.get or raise_for_status raises RequestException,
\* which is logged; return []
FetchFails(t) ==
    /\ t \in Running
    /\ futures' = [futures EXCEPT ![t].state = "finished"]
    /\ UNCHANGED <<main_pc, input_cfg, settings, cli_format, output_format, yielded,
                   all_reviews, error>>
    /\ UNCHANGED parseVars

\* scrape_room: the page is fetched and parse_reviews returns n records
ParseReturns(t, n) ==
    /\ t \in Running
    /\ futures' = [futures EXCEPT ![t].state = "finished", ![t].result = Records(t, n)]
    /\ UNCHANGED <<main_pc, input_cfg, settings, cli_format, output_format, yielded,
                   all_reviews, error>>
    /\ UNCHANGED parseVars

\* scrape_room is left by an exception other than RequestException: the
\* future holds it
ScrapeRaises(t) ==
    /\ t \in Running
    /\ futures' = [futures EXCEPT ![t].state = "finished", ![t].exception = TRUE]
    /\ UNCHANGED <<main_pc, input_cfg, settings, cli_format, output_format, yielded,
                   all_reviews, error>>
    /\ UNCHANGED parseVars

\* as_completed yields a finished future: all_reviews.extend(future.result()),
\* or the exception of the future is logged
Collect(t) ==
    /\ main_pc = "collect"
    /\ t \in 1..Len(futures)
    /\ futures[t].state = "finished"
    /\ t \notin yielded
    /\ yielded' = yielded \cup {t}
    /\ all_reviews' = IF futures[t].exception THEN all_reviews
                      ELSE all_reviews \o futures[t].result
    /\ UNCHANGED <<main_pc, input_cfg, settings, cli_format, output_format, futures,
                   error>>
    /\ UNCHANGED parseVars

\* every future was yielded: the pool is left; return if nothing was
\* collected
PoolExit ==
    /\ main_pc = "collect"
    /\ yielded = 1..Len(futures)
    /\ main_pc' = IF all_reviews = <<>> THEN "done" ELSE "export"
    /\ UNCHANGED <<input_cfg, settings, cli_format, output_format, futures, yielded,
                   all_reviews, error>>
    /\ UNCHANGED parseVars

\* export_reviews(all_reviews, output_path, output_format): ValueError for
\* a format it does not know
Export ==
    /\ main_pc = "export"
    /\ IF output_format \in SupportedFormats
       THEN error' = error /\ main_pc' = "done"
       ELSE error' = "ValueError" /\ main_pc' = "aborted"
    /\ UNCHANGED <<input_cfg, settings, cli_format, output_format, futures, yielded,
                   all_reviews>>
    /\ UNCHANGED parseVars

NextMain ==
    \/ LoadInput
    \/ DetermineFormat
    \/ Submit
    \/ WorkerStart
    \/ \E t \in 1..MaxRooms : FetchFails(t)
    \/ \E t \in 1..MaxRooms : \E n \in 0..MaxRecords : ParseReturns(t, n)
    \/ \E t \in 1..MaxRooms : ScrapeRaises(t)
    \/ \E t \in 1..MaxRooms : Collect(t)
    \/ PoolExit
    \/ Export

\* the "roomUrls" of the input file: absent, a string, or a list of urls
RoomUrlsSamples ==
    {[kind |-> "absent", urls |-> <<>>], [kind |-> "string", urls |-> <<>>]}
    \cup {[kind |-> "list", urls |-> [t \in 1..n |-> RoomUrl(t)]] : n \in 0..MaxRooms}

\* the output format of the input file: absent, supported, unsupported
InputFormatSamples == {None, "CSV", "yaml"}

\* args.output_format: absent, or one of argparse's choices
CliFormatSamples == {None, "xml"}

InitMain ==
    /\ main_pc = "load_input"
    /\ input_cfg \in {[roomUrls |-> r, format |-> f] :
                        r \in RoomUrlsSamples, f \in InputFormatSamples}
    /\ settings \in {[concurrent_requests |-> n, output_format |-> "json"] :
                        n \in 0..MaxWorkers}
    /\ cli_format \in CliFormatSamples
    /\ output_format = None
    /\ futures = <<>>
    /\ yielded = {}
    /\ all_reviews = <<>>
    /\ error = None
    /\ page = <<>> /\ room_url = None /\ max_items = NoLimit /\ pc = "idle"
    /\ containers = <<>> /\ idx = 1 /\ reviews = <<>> /\ examined = <<>>
    /\ raised = FALSE /\ detectCalls = <<>>

SpecMain == InitMain /\ [][NextMain]_vars

-----------------------------------------------------------------------------
(* Claims about main, checked under SpecMain. *)

\* where the records of room t lie in all_reviews
Positions(t) == {k \in 1..Len(all_reviews) : all_reviews[k].roomUrl = RoomUrl(t)}

\* the futures that returned records to main's loop
Returned == {t \in yielded : ~futures[t].exception}

RECURSIVE TotalLen(_)
TotalLen(T) ==
    IF T = {} THEN 0
    ELSE LET t == CHOOSE x \in T : TRUE
         IN  Len(futures[t].result) + TotalLen(T \ {t})

\* C14: at every moment of every interleaving, the rooms in scrape_room are
\* no more than the configured limit, which counts as 1 at least; the
\* combined list holds the records of each room whose future was taken,
\* once, side by side and in the order scrape_room returned them, and no
\* others; and when the pool is left every room's future was taken.
C14_RoomsContiguous ==
    /\ Cardinality(Running) <= concurrent_requests
    /\ concurrent_requests >= 1
    /\ settings.concurrent_requests >= 1 =>
          Cardinality(Running) <= settings.concurrent_requests
    /\ \A t \in 1..Len(futures) :
          IF t \in Returned
          THEN /\ Cardinality(Positions(t)) = Len(futures[t].result)
               /\ \A i \in 1..Len(futures[t].result) :
                     all_reviews[Min(Positions(t)) + i - 1] = futures[t].result[i]
          ELSE Positions(t) = {}
    /\ Len(all_reviews) = TotalLen(Returned)
    /\ main_pc \in {"export", "done", "aborted"} /\ futures # <<>> =>
          yielded = 1..Len(room_urls)

\* C14 witness: under a limit of two the second room's future was taken
\* before the first room's, and the list to export holds the second room's
\* two records and then the first room's two
C14_Witness ==
    /\ main_pc = "export"
    /\ settings.concurrent_requests = 2
    /\ Len(futures) >= 2
    /\ Len(futures[1].result) = 2 /\ Len(futures[2].result) = 2
    /\ SubSeq(all_reviews, 1, 4) = Records(2, 2) \o Records(1, 2)

\* the batch input is malformed: roomUrls is missing or is not a list, or
\* the output format the input file names is none that export_reviews knows
MalformedInput ==
    \/ input_cfg.roomUrls.kind # "list"
    \/ /\ Truthy(input_cfg.format)
       /\ LowerFormat(input_cfg.format) \notin SupportedFormats

\* C15 (as claimed): a run is aborted by malformed batch input only, and
\* before any room is handed to scrape_room; with malformed input no room is
\* ever scraped; with well-formed input no failed fetch and no exception of
\* a worker keeps the run from taking every room's result.
C15_InputErrorsFirst ==
    /\ main_pc = "aborted" => MalformedInput /\ futures = <<>>
    /\ MalformedInput => futures = <<>>
    /\ (~MalformedInput /\ main_pc \in {"export", "done"}) =>
          yielded = 1..Len(room_urls)

====
